---------------------------- MODULE Spec2Model ----------------------------
(***************************************************************************)
(* State-machine model of the memory-bounded model cache (LRUCache,        *)
(* src/catwalk/core/cache.py) and of the ModelManager that loads models    *)
(* into it (src/catwalk/core/manager.py).                                  *)
(*                                                                         *)
(* Spec     : a client drives one LRUCache with get / put / clear.         *)
(* SizeSpec : the same client, its puts also of size 0.                    *)
(* ListSpec : the same client next to GET /models (list_models).           *)
(* AtomSpec : concurrent coroutines call ModelManager.get_model, the put   *)
(*            of _load_model taken statement by statement.                 *)
(* DepSpec  : threads call get_model_manager and reset_model_manager of    *)
(*            api/dependencies.py.                                         *)
(* ParseSpec: ModelManager is constructed from a configuration whose       *)
(*            max_memory and soft_limit are parsed by _parse_size.         *)
(* InfoSpec : concurrent coroutines call ModelManager.get_model_info.      *)
(* MgrSpec  : concurrent coroutines call ModelManager.get_model and        *)
(*            ModelManager.predict; they are suspended only at             *)
(*            `await loader.load(...)` and `await loader.predict(...)`.    *)
(***************************************************************************)
EXTENDS Integers, Sequences, FiniteSets

(***************************************************************************)
(* Parameters of the checked configuration.                                *)
(***************************************************************************)
\* LRUCache(max_size_bytes=...): the hard limit, scaled down.
MaxSizeBytes == 2

\* A behaviour of the direct cache client performs at most MaxOps operations.
MaxOps == 4

\* A behaviour of the client that also stores empty entries performs at most
\* MaxSizeOps operations.
MaxSizeOps == 3

\* A behaviour of the manager's callers performs at most MaxSteps atomic steps.
MaxSteps == 5

\* A behaviour of the callers whose puts are taken statement by statement
\* performs at most MaxAtomSteps steps.
MaxAtomSteps == 8

\* A behaviour of the threads asking for the manager performs at most
\* MaxDepSteps steps.
MaxDepSteps == 6

\* Cache keys / model ids.
Keys == {"model1", "model2", "model3"}

\* Opaque cached values used by the direct cache client.
Values == {1, 2}

\* LRUCache(soft_limit_bytes=...): stored by the constructor, scaled down.
SoftLimitBytes == 1

\* size_bytes arguments: up to one more than the hard limit.
Sizes == 1..(MaxSizeBytes + 1)

\* size_bytes arguments including the empty entry.
AllSizes == 0..(MaxSizeBytes + 1)

\* Python's None.
None == 0

\* Coroutines calling the manager concurrently.
Callers == {"c1", "c2"}

\* The model ids requested from the manager.
ModelIds == Keys \cup {"big_model", "tf_model", "onnx_model", "unlisted"}

\* ModelManager.config['models']: the configured model ids.
Configured == ModelIds \ {"unlisted"}

\* config['models'][id]['type'].lower()
ModelType(id) == CASE id = "tf_model" -> "tensorflow"
                   [] id = "onnx_model" -> "onnx"
                   [] OTHER -> "pytorch"

\* ModelManager.loaders: the model types with a registered loader.
Loaders == {"pytorch", "tensorflow"}

\* loader.get_memory_usage(model) of the model loaded for each id; big_model
\* does not fit the cache.
MemoryUsage(id) == CASE id = "model1" -> 1
                     [] id = "model2" -> 2
                     [] id = "model3" -> 1
                     [] OTHER -> MaxSizeBytes + 1

\* No exception: the call returned normally.
NoExc == "none"

\* The exceptions a loader's predict raises.
LoaderErrors == {"RuntimeError"}

\* The results a loader's predict returns.
Outputs == {41, 42}

VARIABLES
    cache,                \* LRUCache._cache: the OrderedDict, first = next victim
    current_size_bytes,   \* LRUCache._current_size_bytes
    clock,                \* the latest time.time() reading
    last,                 \* history: the cache operation performed by the last step
    stale,                \* history: stale[k] = keys resident at the latest get hit
                          \*          on k and neither read, written nor removed since
    written,              \* history: written[k] = the value of the latest put of k
                          \*          that returned, None once k was evicted or cleared
    nops,                 \* history: number of steps taken so far
    config,               \* ModelManager.config['cache']: max_memory, soft_limit
    built,                \* the outcome of the constructor ModelManager(config_path)
    models,               \* ModelManager.models
    pc,                   \* per caller: "idle" | "loading" | "predicting" | "done"
    call,                 \* per caller: the entry point, "get_model" | "predict" |
                          \*             "get_model_info"
    req,                  \* per caller: the model id of its current call
    ret,                  \* per caller: what get_model returned in its last call
    exc,                  \* per caller: the exception its last call raised
    res,                  \* per caller: what its last predict call returned
    pred,                 \* per caller: the loader.predict invocation of its call
    info,                 \* per caller: what its last get_model_info call returned
    why,                  \* history: the return statement get_model left through
    turn,                 \* history: the caller that took the last step
    handle,               \* per caller: number of the loader.load invocation it awaits
    peers,                \* history: peers[p] = callers whose load of the same id
                          \*          was in flight when p started its own
    nloads,               \* number of loader.load invocations so far
    frame,                \* per caller: its call of LRUCache.put in progress (its
                          \* arguments, the store it started from, the keys it
                          \* evicted so far), or NoFrame
    model_manager,        \* api/dependencies.py: the global _model_manager
    managers,             \* number of ModelManager instances constructed so far
    reset_at,             \* history: the value of managers at the latest reset
    dpc,                  \* per caller: its position in get_model_manager
    got                   \* per caller: what its last get_model_manager returned

vars == <<cache, current_size_bytes, clock, last, stale, written, nops,
          config, built, models,
          pc, call, req, ret, exc, res, pred, info, why, turn, handle, peers,
          nloads, frame, model_manager, managers, reset_at, dpc, got>>

\* The state of the dependency provider get_model_manager.
depVars == <<model_manager, managers, reset_at, dpc, got>>

\* The manager and its callers.
callVars == <<config, built, models, pc, call, req, ret, exc, res, pred, info,
              why, turn, handle, peers, nloads>>

\* Everything but the cache and its histories.
mgrVars == <<callVars, frame, depVars>>

(***************************************************************************)
(* CacheEntry and the OrderedDict.                                         *)
(***************************************************************************)
CacheEntry(k, v, s, t, n) ==
    [key |-> k, value |-> v, size_bytes |-> s, last_accessed |-> t, access_count |-> n]

\* The store as one value: the OrderedDict and the byte counter.
Store(c, cur) == [cache |-> c, current_size_bytes |-> cur]

\* `key in self._cache`
Contains(c, key) == \E i \in 1..Len(c) : c[i].key = key

\* self._cache[key]
Lookup(c, key) == c[CHOOSE i \in 1..Len(c) : c[i].key = key]

\* self._cache.pop(key)
Pop(c, key) == SelectSeq(c, LAMBDA e : e.key # key)

\* The mutant of SetItem: a present key keeps its entry.
SetItem_KeepOld(c, e) == IF Contains(c, e.key) THEN c ELSE Append(c, e)

\* self._cache[key] = entry: a present key keeps its position in an
\* OrderedDict, a new key goes to the end.
SetItem(c, e) ==
    IF Contains(c, e.key)
    THEN [i \in 1..Len(c) |-> IF c[i].key = e.key THEN e ELSE c[i]]
    ELSE Append(c, e)

RECURSIVE SumSizes(_)
\* sum(entry.size_bytes for entry in store)
SumSizes(c) == IF c = <<>> THEN 0 ELSE Head(c).size_bytes + SumSizes(Tail(c))

\* The keys of the OrderedDict, in order.
KeysOf(c) == [i \in 1..Len(c) |-> c[i].key]

ResidentKeys(c) == {c[i].key : i \in 1..Len(c)}

(***************************************************************************)
(* LRUCache operations as functions of the store.                          *)
(***************************************************************************)
\* The mutant of LRUCache_get: a hit does not reorder the OrderedDict.
LRUCache_get_NoMove(st, key, now) ==
    IF ~Contains(st.cache, key)
    THEN [st |-> st, ret |-> None]
    ELSE LET old == Lookup(st.cache, key)
             e == [old EXCEPT !.last_accessed = now, !.access_count = @ + 1]
         IN  [st |-> [st EXCEPT !.cache = SetItem(@, e)], ret |-> e.value]

\* The mutant of LRUCache_get: every key is reported absent.
LRUCache_get_Absent(st, key, now) == [st |-> st, ret |-> None]

\* The mutant of LRUCache_get: a miss empties the cache.
LRUCache_get_MissClears(st, key, now) ==
    IF ~Contains(st.cache, key)
    THEN [st |-> Store(<<>>, 0), ret |-> None]
    ELSE LET old == Lookup(st.cache, key)
             e == [old EXCEPT !.last_accessed = now, !.access_count = @ + 1]
         IN  [st |-> [st EXCEPT !.cache = Append(Pop(@, key), e)], ret |-> e.value]

\* The mutant of LRUCache_get: a hit counts the entry's size again.
LRUCache_get_Recount(st, key, now) ==
    IF ~Contains(st.cache, key)
    THEN [st |-> st, ret |-> None]
    ELSE LET old == Lookup(st.cache, key)
             e == [old EXCEPT !.last_accessed = now, !.access_count = @ + 1]
         IN  [st |-> Store(Append(Pop(st.cache, key), e),
                           st.current_size_bytes + old.size_bytes),
              ret |-> e.value]

\* LRUCache.get
LRUCache_get(st, key, now) ==
    IF ~Contains(st.cache, key)
    THEN [st |-> st, ret |-> None]
    ELSE LET old == Lookup(st.cache, key)
             e == [old EXCEPT !.last_accessed = now, !.access_count = @ + 1]
         IN  [st |-> [st EXCEPT !.cache = Append(Pop(@, key), e)], ret |-> e.value]

\* The mutant of LRUCache_evict_lru: nothing can be evicted.
LRUCache_evict_lru_Nothing(st) == [st |-> st, ret |-> FALSE, key |-> <<>>]

\* LRUCache._evict_lru: pops the first item of the OrderedDict.
LRUCache_evict_lru(st) ==
    IF st.cache = <<>>
    THEN [st |-> st, ret |-> FALSE, key |-> <<>>]
    ELSE LET e == Head(st.cache)
         IN  [st  |-> Store(Pop(st.cache, e.key), st.current_size_bytes - e.size_bytes),
              ret |-> TRUE,
              key |-> <<e.key>>]

\* The mutant of ReleaseOld: the old size of a present key stays counted.
ReleaseOld_Skip(st, key) == st

\* put, lines 84-85: the old size of a present key is released; the entry stays.
ReleaseOld(st, key) ==
    IF Contains(st.cache, key)
    THEN [st EXCEPT !.current_size_bytes = @ - Lookup(st.cache, key).size_bytes]
    ELSE st

RECURSIVE EvictLoop_Soft(_, _)
\* The mutant of EvictLoop: eviction starts at the soft limit.
EvictLoop_Soft(st, size_bytes) ==
    IF st.current_size_bytes + size_bytes > SoftLimitBytes
    THEN LET r == LRUCache_evict_lru(st)
         IN  IF ~r.ret
             THEN [st |-> st, raised |-> size_bytes > MaxSizeBytes, evicted |-> <<>>]
             ELSE LET rest == EvictLoop_Soft(r.st, size_bytes)
                  IN  [rest EXCEPT !.evicted = r.key \o @]
    ELSE [st |-> st, raised |-> FALSE, evicted |-> <<>>]

RECURSIVE EvictLoop(_, _)
\* put, lines 87-90: evict until the new size fits; raise when nothing is left.
EvictLoop(st, size_bytes) ==
    IF st.current_size_bytes + size_bytes > MaxSizeBytes
    THEN LET r == LRUCache_evict_lru(st)
         IN  IF ~r.ret
             THEN [st |-> st, raised |-> TRUE, evicted |-> <<>>]
             ELSE LET rest == EvictLoop(r.st, size_bytes)
                  IN  [rest EXCEPT !.evicted = r.key \o @]
    ELSE [st |-> st, raised |-> FALSE, evicted |-> <<>>]

\* The mutant of Insert: a replaced entry keeps its access count.
Insert_KeepCount(st, key, value, size_bytes, now) ==
    Store(SetItem(st.cache,
                  CacheEntry(key, value, size_bytes, now,
                             IF Contains(st.cache, key)
                             THEN Lookup(st.cache, key).access_count
                             ELSE 1)),
          st.current_size_bytes + size_bytes)

\* The mutant of Insert: nothing is stored and nothing is counted.
Insert_Nothing(st, key, value, size_bytes, now) == st

\* The mutant of Insert: the size is counted, the entry is not stored.
Insert_SizeOnly(st, key, value, size_bytes, now) ==
    Store(st.cache, st.current_size_bytes + size_bytes)

\* put, lines 92-100: build the entry, store it, add its size.
Insert(st, key, value, size_bytes, now) ==
    Store(SetItem(st.cache, CacheEntry(key, value, size_bytes, now, 1)),
          st.current_size_bytes + size_bytes)

\* LRUCache.put; a raise leaves the mutations made so far in place.
LRUCache_put(st, key, value, size_bytes, now) ==
    LET l == EvictLoop(ReleaseOld(st, key), size_bytes)
    IN  IF l.raised
        THEN l
        ELSE [l EXCEPT !.st = Insert(l.st, key, value, size_bytes, now)]

\* The mutant of LRUCache_clear: the byte counter is not reset.
LRUCache_clear_KeepsCount(st) == Store(<<>>, st.current_size_bytes)

\* LRUCache.clear
LRUCache_clear(st) == Store(<<>>, 0)

\* cache.get_last_access_time(key): LRUCache defines no such attribute, the
\* call raises AttributeError.
LRUCache_get_last_access_time(st, key) ==
    [st |-> st, raised |-> "AttributeError", ret |-> None]

\* LRUCache.stats; utilization is the quotient num / den.
LRUCache_stats(st) ==
    [item_count |-> Len(st.cache),
     current_size_bytes |-> st.current_size_bytes,
     max_size_bytes |-> MaxSizeBytes,
     utilization |-> [num |-> st.current_size_bytes, den |-> MaxSizeBytes]]

(***************************************************************************)
(* History bookkeeping shared by both specifications.                      *)
(***************************************************************************)
\* The elements of a sequence.
Range(q) == {q[i] : i \in 1..Len(q)}

\* stale after a get of key.
StaleGet(key) ==
    IF Contains(cache, key)
    THEN [j \in Keys |-> IF j = key THEN ResidentKeys(cache) \ {key}
                                    ELSE stale[j] \ {key}]
    ELSE stale

\* stale after a put of key with outcome r.
StalePut(key, r) ==
    LET gone == Range(r.evicted) \cup {key}
    IN  [j \in Keys |-> IF j \in gone \/ r.raised THEN {} ELSE stale[j] \ gone]

\* written after a put of key with outcome r.
WrittenPut(key, value, r) ==
    [j \in Keys |-> IF j = key /\ ~r.raised THEN value
                    ELSE IF j = key \/ j \in Range(r.evicted) THEN None
                    ELSE written[j]]

\* The record kept of a get.
GetRecord(key, r) ==
    [op |-> "get", key |-> key, ret |-> r.ret, hit |-> Contains(cache, key)]

\* The record kept of a put: its arguments, whether it raised, the keys it
\* evicted in order, whether its key was resident, and the keys that lost an
\* entry of their stale set to this put's evictions.
PutRecord(key, value, size_bytes, r) ==
    [op |-> "put", key |-> key, value |-> value, size_bytes |-> size_bytes,
     raised |-> r.raised, evicted |-> r.evicted, present |-> Contains(cache, key),
     shielded |-> {k \in Keys : stale[k] \cap Range(r.evicted) # {}}]

(***************************************************************************)
(* ModelManager._parse_size and the cache section of ModelManager.__init__ *)
(* (ParseSpec).  A size string is the sequence of its characters; a byte   *)
(* count is a numeral in base 1024, most significant digit first, so that  *)
(* the multipliers up to 1024^4 are exact.                                 *)
(***************************************************************************)
\* The characters \d of the pattern (ASCII).
Digits == {"0", "1", "2", "3", "4", "5", "6", "7", "8", "9"}

\* The characters \s of the pattern and of str.strip() that occur here.
Whitespace == {" "}

\* int(c) of a digit.
DigitValue(c) ==
    CASE c = "0" -> 0 [] c = "1" -> 1 [] c = "2" -> 2 [] c = "3" -> 3
      [] c = "4" -> 4 [] c = "5" -> 5 [] c = "6" -> 6 [] c = "7" -> 7
      [] c = "8" -> 8 [] c = "9" -> 9

\* The mutant of Upper: the case is kept.
Upper_Same(c) == c

\* str.upper() of one character.
Upper(c) ==
    CASE c = "k" -> "K" [] c = "m" -> "M" [] c = "g" -> "G" [] c = "t" -> "T"
      [] c = "b" -> "B" [] c = "x" -> "X" [] OTHER -> c

\* size_str.upper()
ToUpper(s) == [i \in 1..Len(s) |-> Upper(s[i])]

RECURSIVE LStrip(_)
LStrip(s) == IF s # <<>> /\ Head(s) \in Whitespace THEN LStrip(Tail(s)) ELSE s

RECURSIVE RStrip(_)
RStrip(s) ==
    IF s # <<>> /\ s[Len(s)] \in Whitespace
    THEN RStrip(SubSeq(s, 1, Len(s) - 1))
    ELSE s

\* size_str.strip()
Strip(s) == RStrip(LStrip(s))

RECURSIVE Span(_, _)
\* The length of the longest prefix of s made of characters of C.
Span(s, C) == IF s # <<>> /\ Head(s) \in C THEN 1 + Span(Tail(s), C) ELSE 0

\* The keys of `multipliers` with the power of 1024 each stands for.
Units == {<<"B">>, <<"K", "B">>, <<"M", "B">>, <<"G", "B">>, <<"T", "B">>}

UnitPower(u) ==
    CASE u = <<"B">> -> 0 [] u = <<"K", "B">> -> 1 [] u = <<"M", "B">> -> 2
      [] u = <<"G", "B">> -> 3 [] u = <<"T", "B">> -> 4

\* re.match(r'^(\d+(?:\.\d+)?)\s*([KMGT]?B)$', s): the integer digits, the
\* fraction digits and the unit, or no match.
Match(s) ==
    LET n    == Span(s, Digits)
        r1   == SubSeq(s, n + 1, Len(s))
        f    == IF r1 # <<>> /\ Head(r1) = "." THEN Span(Tail(r1), Digits) ELSE 0
        len  == IF f > 0 THEN n + 1 + f ELSE n
        r2   == SubSeq(s, len + 1, Len(s))
        unit == SubSeq(r2, Span(r2, Whitespace) + 1, Len(r2))
    IN  IF n > 0 /\ unit \in Units
        THEN [ok |-> TRUE, int |-> SubSeq(s, 1, n),
              frac |-> IF f > 0 THEN SubSeq(s, n + 2, n + 1 + f) ELSE <<>>,
              unit |-> unit]
        ELSE [ok |-> FALSE, int |-> <<>>, frac |-> <<>>, unit |-> <<>>]

RECURSIVE DecimalValue(_)
\* The number written by a sequence of digits.
DecimalValue(ds) ==
    IF ds = <<>> THEN 0
    ELSE 10 * DecimalValue(SubSeq(ds, 1, Len(ds) - 1)) + DigitValue(ds[Len(ds)])

\* multipliers['KB']
Base == 1024

RECURSIVE ToNumeral(_)
\* n in base 1024.
ToNumeral(n) ==
    IF n < Base THEN <<n>> ELSE Append(ToNumeral(n \div Base), n % Base)

RECURSIVE DivLoop(_, _, _)
\* The digits of num divided by d, by long division.
DivLoop(num, d, rem) ==
    IF num = <<>> THEN <<>>
    ELSE LET cur == rem * Base + Head(num)
         IN  <<cur \div d>> \o DivLoop(Tail(num), d, cur % d)

RECURSIVE Normal(_)
\* A numeral without leading zeros.
Normal(num) == IF Len(num) > 1 /\ Head(num) = 0 THEN Normal(Tail(num)) ELSE num

\* int(float(number) * multipliers[unit]) for the groups of a match: the
\* number is int.frac = N / 10^L, the product N * 1024^k / 10^L is cut to an
\* integer.
Bytes(m) ==
    LET L == Len(m.frac)
        N == DecimalValue(m.int \o m.frac)
        k == UnitPower(m.unit)
    IN  Normal(DivLoop(ToNumeral(N) \o [i \in 1..k |-> 0], 10^L, 0))

\* _parse_size(size_str): the byte count, or the ValueError raised for a
\* value that is no string or does not match.
ModelManager_parse_size(v) ==
    IF v.type # "str"
    THEN [raised |-> "ValueError", value |-> <<>>]
    ELSE LET m == Match(ToUpper(Strip(v.chars)))
         IN  IF ~m.ok
             THEN [raised |-> "ValueError", value |-> <<>>]
             ELSE [raised |-> NoExc, value |-> Bytes(m)]

\* No constructor call yet.
NotBuilt == [status |-> "none", max_size_bytes |-> <<>>, soft_limit_bytes |-> <<>>]

\* ModelManager.__init__, lines 33-51: max_memory is parsed, then soft_limit,
\* then the cache is created with both; a ValueError leaves the constructor.
ModelManager_init(cfg) ==
    LET a == ModelManager_parse_size(cfg.max_memory)
        b == ModelManager_parse_size(cfg.soft_limit)
    IN  IF a.raised # NoExc \/ b.raised # NoExc
        THEN [status |-> "failed", max_size_bytes |-> <<>>, soft_limit_bytes |-> <<>>]
        ELSE [status |-> "constructed", max_size_bytes |-> a.value,
              soft_limit_bytes |-> b.value]

\* A string value of the configuration.
Str(s) == [type |-> "str", chars |-> s]

\* The cache section of the configuration of the manager of Spec and MgrSpec.
DefaultConfig == [max_memory |-> Str(<<"2", "B">>), soft_limit |-> Str(<<"1", "B">>)]

InitConfig ==
    /\ config = DefaultConfig
    /\ built = ModelManager_init(DefaultConfig)

\* The size strings tried have at most MaxLen characters.
MaxLen == 4

\* The characters the size strings tried are made of.
Chars == {"0", "5", ".", " ", "k", "M", "G", "T", "B"}

\* The strings tried for max_memory and soft_limit: those of n characters.
SizeStrings(n) == [1..n -> Chars]

\* Longer strings tried: a number, spaces, a unit in some case.
Numbers ==
    {<<"5">>, <<"0", ".", "5">>, <<"5", ".", "5">>, <<"0", ".", "2", "9">>,
     <<"1", "2", ".", "7", "5">>, <<"1", "0", "2", "3">>}

UnitSpellings ==
    {<<"B">>, <<"b">>, <<"K", "B">>, <<"k", "b">>, <<"M", "B">>, <<"m", "B">>,
     <<"G", "B">>, <<"g", "b">>, <<"T", "B">>, <<"t", "b">>}

Sized ==
    {num \o sp \o u : num \in Numbers, sp \in {<<>>, <<" ">>}, u \in UnitSpellings}

\* A value of the configuration that is no string.
NotAString == [type |-> "int", chars |-> <<>>]

\* The configurations tried: one of the two values is v, the other is well
\* formed.
WithMaxMemory(v) == [max_memory |-> v, soft_limit |-> Str(<<"5", "B">>)]

WithSoftLimit(v) == [max_memory |-> Str(<<"5", "B">>), soft_limit |-> v]

(***************************************************************************)
(* The direct cache client (Spec).                                         *)
(***************************************************************************)
\* time.time(), read by a get hit and by a put that does not raise: it never
\* goes back and may repeat a reading.
Times == {clock, clock + 1}

Now == Store(cache, current_size_bytes)

NoOp == [op |-> "none"]

InitCache ==
    /\ cache = <<>>
    /\ current_size_bytes = 0
    /\ clock = 0
    /\ last = NoOp
    /\ stale = [j \in Keys |-> {}]
    /\ written = [j \in Keys |-> None]
    /\ nops = 0

\* No loader.predict invocation.
NoPredict == [loader |-> "none", model |-> None, result |-> None, error |-> NoExc]

\* get_model_info returned None.
NoInfo == [found |-> FALSE, format |-> "none", memory_usage |-> 0, last_used |-> None]

\* The ModelInfo that get_model_info builds for the model of id.
ModelInfo(id, last_used) ==
    [found |-> TRUE, format |-> ModelType(id), memory_usage |-> MemoryUsage(id),
     last_used |-> last_used]

InitMgr ==
    /\ models = {}
    /\ info = [p \in Callers |-> NoInfo]
    /\ pc = [p \in Callers |-> "idle"]
    /\ call = [p \in Callers |-> "get_model"]
    /\ req = [p \in Callers |-> "model1"]
    /\ ret = [p \in Callers |-> None]
    /\ exc = [p \in Callers |-> NoExc]
    /\ res = [p \in Callers |-> None]
    /\ pred = [p \in Callers |-> NoPredict]
    /\ why = [p \in Callers |-> "none"]
    /\ turn = "c1"
    /\ handle = [p \in Callers |-> 0]
    /\ peers = [p \in Callers |-> {}]
    /\ nloads = 0

\* No put is in progress; no manager has been asked for.
NoFrame == [who |-> "none"]

InitDeps ==
    /\ frame = [p \in Callers |-> NoFrame]
    /\ model_manager = None
    /\ managers = 0
    /\ reset_at = 0
    /\ dpc = [p \in Callers |-> "idle"]
    /\ got = [p \in Callers |-> None]

Init == InitCache /\ InitMgr /\ InitConfig /\ InitDeps

\* No manager is constructed yet.
ParseInit ==
    /\ InitCache
    /\ InitMgr
    /\ InitDeps
    /\ config = DefaultConfig
    /\ built = NotBuilt

\* ModelManager(config_path): the configuration cfg is read from the file and
\* its cache section is parsed.
Construct(cfg) ==
    /\ built.status = "none"
    /\ config' = cfg
    /\ built' = ModelManager_init(cfg)
    /\ UNCHANGED <<cache, current_size_bytes, clock, last, stale, written, nops,
                   models, pc, call, req, ret, exc, res, pred, info, why,
                   turn, handle, peers, nloads, frame, depVars>>

\* The constructor runs once.
ParseNext ==
    /\ built.status = "none"
    /\ \/ \E n \in 0..MaxLen : \E s \in SizeStrings(n) :
              Construct(WithMaxMemory(Str(s)))
       \/ \E n \in 0..MaxLen : \E s \in SizeStrings(n) :
              Construct(WithSoftLimit(Str(s)))
       \/ \E s \in Sized : Construct(WithMaxMemory(Str(s)))
       \/ \E s \in Sized : Construct(WithSoftLimit(Str(s)))
       \/ Construct(WithMaxMemory(NotAString))
       \/ Construct(WithSoftLimit(NotAString))

ParseSpec == ParseInit /\ [][ParseNext]_vars

\* One more operation of the direct cache client.
Step ==
    /\ nops < MaxOps
    /\ nops' = nops + 1

\* cache.get(key)
Get(key) ==
    \E t \in Times : \E r \in {LRUCache_get(Now, key, t)} :
        /\ Step
        /\ cache' = r.st.cache
        /\ current_size_bytes' = r.st.current_size_bytes
        /\ clock' = IF Contains(cache, key) THEN t ELSE clock
        /\ last' = GetRecord(key, r)
        /\ stale' = StaleGet(key)
        /\ UNCHANGED <<written, mgrVars>>

\* cache.put(key, value, size_bytes)
Put(key, value, size_bytes) ==
    \E t \in Times : \E r \in {LRUCache_put(Now, key, value, size_bytes, t)} :
        /\ Step
        /\ cache' = r.st.cache
        /\ current_size_bytes' = r.st.current_size_bytes
        /\ clock' = IF r.raised THEN clock ELSE t
        /\ last' = PutRecord(key, value, size_bytes, r)
        /\ stale' = StalePut(key, r)
        /\ written' = WrittenPut(key, value, r)
        /\ UNCHANGED mgrVars

\* cache.clear()
Clear ==
    /\ Step
    /\ cache' = LRUCache_clear(Now).cache
    /\ current_size_bytes' = LRUCache_clear(Now).current_size_bytes
    /\ last' = [op |-> "clear", dropped |-> Len(cache)]
    /\ stale' = [j \in Keys |-> {}]
    /\ written' = [j \in Keys |-> None]
    /\ UNCHANGED <<clock, mgrVars>>

Next ==
    \/ \E k \in Keys : Get(k)
    \/ \E k \in Keys, v \in Values, s \in Sizes : Put(k, v, s)
    \/ Clear

Spec == Init /\ [][Next]_vars

\* The same client with every size_bytes from 0 on.
SizeNext ==
    /\ nops < MaxSizeOps
    /\ \/ \E k \in Keys : Get(k)
       \/ \E k \in Keys, v \in Values, s \in AllSizes : Put(k, v, s)
       \/ Clear

SizeSpec == Init /\ [][SizeNext]_vars

(***************************************************************************)
(* ModelManager.get_model and ModelManager.predict called by concurrent    *)
(* coroutines (MgrSpec).  A coroutine runs without interruption up to      *)
(* `await loader.load(...)` or `await loader.predict(...)`, where other    *)
(* coroutines may run, and again from the awaited call's return.           *)
(***************************************************************************)
\* The mutant of MgrStep: no caller takes a step while a load is in flight.
MgrStep_Exclusive ==
    /\ nops < MaxSteps
    /\ nops' = nops + 1
    /\ \A q \in Callers : pc[q] # "loading"

\* One more atomic step of a caller of the manager.
MgrStep ==
    /\ nops < MaxSteps
    /\ nops' = nops + 1

\* The callers whose load of id is in flight.
Loading(id) == {q \in Callers : pc[q] = "loading" /\ req[q] = id}

\* The mutant of Returned: predict does not test the model for None.
Returned_NoTest(p, id, c, model, w) ==
    /\ ret' = [ret EXCEPT ![p] = model]
    /\ why' = [why EXCEPT ![p] = w]
    /\ res' = [res EXCEPT ![p] = None]
    /\ exc' = [exc EXCEPT ![p] = NoExc]
    /\ info' = [info EXCEPT ![p] = NoInfo]
    /\ IF c # "predict"
       THEN /\ pc' = [pc EXCEPT ![p] = "done"]
            /\ pred' = [pred EXCEPT ![p] = NoPredict]
       ELSE /\ pc' = [pc EXCEPT ![p] = "predicting"]
            /\ pred' = [pred EXCEPT ![p] =
                            [loader |-> ModelType(id), model |-> model,
                             result |-> None, error |-> NoExc]]

\* get_model has its value, through return statement w of get_model /
\* _load_model.  Entered by get_model (c = "get_model") the call returns it;
\* entered by predict (c = "predict") the call goes on in predict: None raises
\* ValueError, a missing loader raises ValueError, otherwise the loader's
\* predict is awaited with the model; entered by get_model_info
\* (c = "get_model_info") the call goes on in get_model_info: None or a
\* missing loader returns None, otherwise the ModelInfo is built from the
\* loader's memory usage and cache.get_last_access_time, and any exception
\* raised on the way is caught and None is returned.
Returned(p, id, c, model, w) ==
    /\ ret' = [ret EXCEPT ![p] = model]
    /\ why' = [why EXCEPT ![p] = w]
    /\ res' = [res EXCEPT ![p] = None]
    /\ info' = [info EXCEPT ![p] =
                    IF c # "get_model_info" \/ model = None
                       \/ ModelType(id) \notin Loaders
                    THEN NoInfo
                    ELSE LET r == LRUCache_get_last_access_time(
                                      Store(cache', current_size_bytes'), id)
                         IN  IF r.raised # NoExc THEN NoInfo
                             ELSE ModelInfo(id, r.ret)]
    /\ IF c # "predict"
       THEN /\ pc' = [pc EXCEPT ![p] = "done"]
            /\ exc' = [exc EXCEPT ![p] = NoExc]
            /\ pred' = [pred EXCEPT ![p] = NoPredict]
       ELSE IF model = None \/ ModelType(id) \notin Loaders
       THEN /\ pc' = [pc EXCEPT ![p] = "done"]
            /\ exc' = [exc EXCEPT ![p] = "ValueError"]
            /\ pred' = [pred EXCEPT ![p] = NoPredict]
       ELSE /\ pc' = [pc EXCEPT ![p] = "predicting"]
            /\ exc' = [exc EXCEPT ![p] = NoExc]
            /\ pred' = [pred EXCEPT ![p] =
                            [loader |-> ModelType(id), model |-> model,
                             result |-> None, error |-> NoExc]]

\* get_model(id), entered through c, up to its return or to the await in
\* _load_model: the cache lookup and, on a miss, the configuration and loader
\* lookups of _load_model.
CallGetModel(p, id, c) ==
    \E t \in Times : \E r \in {LRUCache_get(Now, id, t)} :
        /\ pc[p] \in {"idle", "done"}
        /\ MgrStep
        /\ cache' = r.st.cache
        /\ current_size_bytes' = r.st.current_size_bytes
        /\ clock' = IF Contains(cache, id) THEN t ELSE clock
        /\ last' = GetRecord(id, r)
        /\ stale' = StaleGet(id)
        /\ UNCHANGED <<written, frame, depVars, config, built, models>>
        /\ req' = [req EXCEPT ![p] = id]
        /\ call' = [call EXCEPT ![p] = c]
        /\ turn' = p
        /\ IF r.ret # None \/ id \notin Configured \/ ModelType(id) \notin Loaders
           THEN /\ Returned(p, id, c, r.ret,
                            IF r.ret # None THEN "hit"
                            ELSE IF id \notin Configured THEN "not_configured"
                            ELSE "no_loader")
                /\ handle' = [handle EXCEPT ![p] = 0]
                /\ peers' = [q \in Callers |-> IF q = p THEN {} ELSE peers[q] \ {p}]
                /\ UNCHANGED nloads
           ELSE /\ pc' = [pc EXCEPT ![p] = "loading"]
                /\ ret' = [ret EXCEPT ![p] = None]
                /\ why' = [why EXCEPT ![p] = "none"]
                /\ exc' = [exc EXCEPT ![p] = NoExc]
                /\ res' = [res EXCEPT ![p] = None]
                /\ pred' = [pred EXCEPT ![p] = NoPredict]
                /\ info' = [info EXCEPT ![p] = NoInfo]
                /\ nloads' = nloads + 1
                /\ handle' = [handle EXCEPT ![p] = nloads + 1]
                /\ peers' = [q \in Callers |-> IF q = p THEN Loading(id) \ {p}
                                                       ELSE peers[q] \ {p}]

\* await manager.get_model(id)
GetModel(p, id) == CallGetModel(p, id, "get_model")

\* await manager.predict(id, inputs, parameters)
Predict(p, id) == CallGetModel(p, id, "predict")

\* await manager.get_model_info(id): an id without configuration entry
\* returns None at once, any other id goes through get_model.
GetModelInfo(p, id) ==
    IF id \in Configured
    THEN CallGetModel(p, id, "get_model_info")
    ELSE /\ pc[p] \in {"idle", "done"}
         /\ MgrStep
         /\ pc' = [pc EXCEPT ![p] = "done"]
         /\ call' = [call EXCEPT ![p] = "get_model_info"]
         /\ req' = [req EXCEPT ![p] = id]
         /\ ret' = [ret EXCEPT ![p] = None]
         /\ exc' = [exc EXCEPT ![p] = NoExc]
         /\ res' = [res EXCEPT ![p] = None]
         /\ pred' = [pred EXCEPT ![p] = NoPredict]
         /\ info' = [info EXCEPT ![p] = NoInfo]
         /\ why' = [why EXCEPT ![p] = "not_configured"]
         /\ handle' = [handle EXCEPT ![p] = 0]
         /\ peers' = [q \in Callers |-> IF q = p THEN {} ELSE peers[q] \ {p}]
         /\ turn' = p
         /\ last' = NoOp
         /\ UNCHANGED <<cache, current_size_bytes, clock, stale, written, frame,
                        depVars, config, built, models, nloads>>

\* The mutant of LoadFails: the failure is remembered as a cache entry.
LoadFails_Remembered(p) ==
    /\ pc[p] = "loading"
    /\ MgrStep
    /\ Returned(p, req[p], call[p], None, "load_failed")
    /\ turn' = p
    /\ last' = NoOp
    /\ cache' = Append(Pop(cache, req[p]), CacheEntry(req[p], -1, 0, clock, 1))
    /\ UNCHANGED <<current_size_bytes, clock, stale, written, frame,
                   depVars, config, built, models, call, req, handle, peers,
                   nloads>>

\* loader.load returned None or raised: _load_model returns None.
LoadFails(p) ==
    /\ pc[p] = "loading"
    /\ MgrStep
    /\ Returned(p, req[p], call[p], None, "load_failed")
    /\ turn' = p
    /\ last' = NoOp
    /\ UNCHANGED <<cache, current_size_bytes, clock, stale, written, frame,
                   depVars, config, built, models, call, req, handle, peers,
                   nloads>>

\* loader.load returned a model (TensorFlowLoader.load never does): it is put
\* into the cache and returned; a put that raises is caught and None is
\* returned.
LoadSucceeds(p) ==
    \E t \in Times :
    \E r \in {LRUCache_put(Now, req[p], handle[p], MemoryUsage(req[p]), t)} :
        /\ pc[p] = "loading"
        /\ ModelType(req[p]) = "pytorch"
        /\ MgrStep
        /\ cache' = r.st.cache
        /\ current_size_bytes' = r.st.current_size_bytes
        /\ clock' = IF r.raised THEN clock ELSE t
        /\ last' = PutRecord(req[p], handle[p], MemoryUsage(req[p]), r)
        /\ stale' = StalePut(req[p], r)
        /\ written' = WrittenPut(req[p], handle[p], r)
        /\ IF r.raised
           THEN Returned(p, req[p], call[p], None, "put_raised")
           ELSE Returned(p, req[p], call[p], handle[p], "loaded")
        /\ turn' = p
        /\ UNCHANGED <<frame, depVars, config, built, models, call, req, handle,
                       peers, nloads>>

\* loader.predict returned o (TensorFlowLoader.predict never does): predict
\* returns it.
PredictReturns(p, o) ==
    /\ pc[p] = "predicting"
    /\ pred[p].loader = "pytorch"
    /\ MgrStep
    /\ pc' = [pc EXCEPT ![p] = "done"]
    /\ pred' = [pred EXCEPT ![p].result = o]
    /\ res' = [res EXCEPT ![p] = o]
    /\ turn' = p
    /\ last' = NoOp
    /\ UNCHANGED <<cache, current_size_bytes, clock, stale, written, frame,
                   depVars, config, built, models, call, req, ret, exc, info, why,
                   handle, peers, nloads>>

\* loader.predict raised e: predict lets it through.
PredictRaises(p, e) ==
    /\ pc[p] = "predicting"
    /\ MgrStep
    /\ pc' = [pc EXCEPT ![p] = "done"]
    /\ pred' = [pred EXCEPT ![p].error = e]
    /\ exc' = [exc EXCEPT ![p] = e]
    /\ turn' = p
    /\ last' = NoOp
    /\ UNCHANGED <<cache, current_size_bytes, clock, stale, written, frame,
                   depVars, config, built, models, call, req, ret, res, info, why,
                   handle, peers, nloads>>

MgrNext ==
    \/ \E p \in Callers, id \in ModelIds : GetModel(p, id)
    \/ \E p \in Callers, id \in ModelIds : Predict(p, id)
    \/ \E p \in Callers : LoadFails(p)
    \/ \E p \in Callers : LoadSucceeds(p)
    \/ \E p \in Callers, o \in Outputs : PredictReturns(p, o)
    \/ \E p \in Callers, e \in LoaderErrors : PredictRaises(p, e)

MgrSpec == Init /\ [][MgrNext]_vars

\* Concurrent coroutines calling ModelManager.get_model_info.
InfoNext ==
    \/ \E p \in Callers, id \in ModelIds : GetModelInfo(p, id)
    \/ \E p \in Callers : LoadFails(p)
    \/ \E p \in Callers : LoadSucceeds(p)

InfoSpec == Init /\ [][InfoNext]_vars

\* get_system_status of the API: the number of entries of manager.models and
\* the utilization that cache.stats() reports.
GetSystemStatus ==
    [active_models |-> Cardinality(models),
     cache_utilization |-> LRUCache_stats(Now).utilization]

(***************************************************************************)
(* The HTTP handlers of api/v1/routes.py, as functions of what the manager *)
(* gave them.  An exception is a record of its class and, for an           *)
(* HTTPException, its status code.                                         *)
(***************************************************************************)
\* Nothing was raised.
NoRaise == [type |-> "none", status_code |-> None]

\* fastapi.HTTPException(status_code=code), a subclass of Exception.
HTTPException(code) == [type |-> "HTTPException", status_code |-> code]

\* An exception of the manager or a loader, of class e.
Raise(e) == IF e = NoExc THEN NoRaise ELSE [type |-> e, status_code |-> None]

\* try: <body> / except Exception as e: raise HTTPException(status_code=code):
\* every exception the body raised, an HTTPException included, is replaced.
ExceptException(body, code) ==
    IF body.type = "none" THEN body ELSE HTTPException(code)

\* The status of the response: that of the HTTPException the handler raised,
\* 200 when it returned.
StatusCode(e) == IF e.type = "none" THEN 200 ELSE e.status_code

\* catwalk routes, predict: model is what get_model returned, e what
\* model_manager.predict raised.
Routes_predict(model, e) ==
    ExceptException(IF model = None THEN HTTPException(404) ELSE Raise(e), 500)

\* portfolio routes, predict: the configuration is tested first.
Portfolio_predict(id, model, e) ==
    ExceptException(IF id \notin Configured THEN HTTPException(404)
                    ELSE IF model = None THEN HTTPException(500)
                    ELSE Raise(e),
                    500)

\* get_model_metadata of both routes: i is what get_model_info returned.
Routes_get_model_metadata(i) ==
    ExceptException(IF ~i.found THEN HTTPException(404) ELSE NoRaise, 500)

(***************************************************************************)
(* ModelManager.get_model with LRUCache.put taken statement by statement   *)
(* (AtomSpec).  The coroutines of the manager are called from the          *)
(* `async def` handlers and run on the event loop, one at a time, each     *)
(* from a resumption to its next `await`.  LRUCache.put and _evict_lru are *)
(* plain functions without an await.                                       *)
(***************************************************************************)
\* The mutant of Scheduled: a coroutine runs whenever it is ready.
Scheduled_Preemptive(p) == TRUE

\* The event loop may run p: no other coroutine is inside a call that has not
\* reached an await.
Scheduled(p) == \A q \in Callers \ {p} : frame[q] = NoFrame

AtomStep ==
    /\ nops < MaxAtomSteps
    /\ nops' = nops + 1

\* await manager.get_model(id), up to its return or its await.
AtomGetModel(p, id) == Scheduled(p) /\ GetModel(p, id)

\* loader.load returned None or raised.
AtomLoadFails(p) == Scheduled(p) /\ LoadFails(p)

\* loader.load returned a model: _load_model goes on to cache.put, whose first
\* statement (lines 84-85) releases the old size of a present key.
PutBegin(p) ==
    \E st \in {ReleaseOld(Now, req[p])} :
        /\ pc[p] = "loading"
        /\ ModelType(req[p]) = "pytorch"
        /\ frame[p] = NoFrame
        /\ Scheduled(p)
        /\ AtomStep
        /\ cache' = st.cache
        /\ current_size_bytes' = st.current_size_bytes
        /\ frame' = [frame EXCEPT ![p] =
                        [who |-> p, key |-> req[p], value |-> handle[p],
                         size_bytes |-> MemoryUsage(req[p]), before |-> Now,
                         present |-> Contains(cache, req[p]), evicted |-> <<>>]]
        /\ last' = NoOp
        /\ turn' = p
        /\ UNCHANGED <<clock, stale, written, config, built, models, pc, call, req,
                       ret, exc, res, pred, info, why, handle, peers, nloads,
                       depVars>>

\* put, lines 87-89: the size does not fit and _evict_lru pops an item.
PutEvict(p) ==
    \E r \in {LRUCache_evict_lru(Now)} :
        /\ frame[p] # NoFrame
        /\ Scheduled(p)
        /\ current_size_bytes + frame[p].size_bytes > MaxSizeBytes
        /\ r.ret
        /\ AtomStep
        /\ cache' = r.st.cache
        /\ current_size_bytes' = r.st.current_size_bytes
        /\ frame' = [frame EXCEPT ![p].evicted = @ \o r.key]
        /\ last' = NoOp
        /\ turn' = p
        /\ UNCHANGED <<clock, stale, written, config, built, models, pc, call, req,
                       ret, exc, res, pred, info, why, handle, peers, nloads,
                       depVars>>

\* The put of p ends, raising or not: the histories record the whole put and
\* _load_model returns.
PutEnd(p, raised, t) ==
    LET f == frame[p]
        r == [raised |-> raised, evicted |-> f.evicted]
    IN  /\ frame' = [frame EXCEPT ![p] = NoFrame]
        /\ clock' = IF raised THEN clock ELSE t
        /\ last' = [op |-> "put", key |-> f.key, value |-> f.value,
                    size_bytes |-> f.size_bytes, raised |-> raised,
                    evicted |-> f.evicted, present |-> f.present,
                    shielded |-> {k \in Keys : stale[k] \cap Range(f.evicted) # {}}]
        /\ stale' = StalePut(f.key, r)
        /\ written' = WrittenPut(f.key, f.value, r)
        /\ IF raised
           THEN Returned(p, req[p], call[p], None, "put_raised")
           ELSE Returned(p, req[p], call[p], handle[p], "loaded")
        /\ turn' = p
        /\ UNCHANGED <<depVars, config, built, models, call, req, handle, peers,
                       nloads>>

\* put, lines 87-90: the size does not fit and nothing is left to evict; the
\* ValueError is caught by _load_model, which returns None.
PutRaise(p) ==
    /\ frame[p] # NoFrame
    /\ Scheduled(p)
    /\ current_size_bytes + frame[p].size_bytes > MaxSizeBytes
    /\ ~LRUCache_evict_lru(Now).ret
    /\ AtomStep
    /\ UNCHANGED <<cache, current_size_bytes>>
    /\ PutEnd(p, TRUE, clock)

\* put, lines 92-100: the size fits; the entry is stored and counted, put
\* returns and _load_model returns the model.
PutInsert(p) ==
    /\ frame[p] # NoFrame
    /\ Scheduled(p)
    /\ current_size_bytes + frame[p].size_bytes <= MaxSizeBytes
    /\ AtomStep
    /\ \E t \in Times :
       \E st \in {Insert(Now, frame[p].key, frame[p].value, frame[p].size_bytes, t)} :
           /\ cache' = st.cache
           /\ current_size_bytes' = st.current_size_bytes
           /\ PutEnd(p, FALSE, t)

AtomNext ==
    \/ \E p \in Callers, id \in ModelIds : AtomGetModel(p, id)
    \/ \E p \in Callers : AtomLoadFails(p)
    \/ \E p \in Callers : PutBegin(p)
    \/ \E p \in Callers : PutEvict(p)
    \/ \E p \in Callers : PutRaise(p)
    \/ \E p \in Callers : PutInsert(p)

AtomSpec == Init /\ [][AtomNext]_vars

(***************************************************************************)
(* api/dependencies.py (DepSpec).  get_model_manager is a plain function   *)
(* given to Depends(...): the framework runs such a provider in a worker   *)
(* thread for each request, so calls of it run in parallel, and the        *)
(* constructor it calls between the test of the global and the assignment  *)
(* reads the configuration file.  A manager is the number of its           *)
(* construction; its cache is created empty by the constructor.            *)
(***************************************************************************)
DepStep ==
    /\ nops < MaxDepSteps
    /\ nops' = nops + 1

\* get_model_manager, `if _model_manager is None:`.
DepTest(p) ==
    /\ dpc[p] \in {"idle", "returned"}
    /\ DepStep
    /\ dpc' = [dpc EXCEPT ![p] = IF model_manager = None THEN "constructing"
                                                        ELSE "returning"]
    /\ UNCHANGED <<cache, current_size_bytes, clock, last, stale, written,
                   callVars, frame, model_manager, managers, reset_at, got>>

\* get_model_manager, `_model_manager = ModelManager(config_path)`.
DepAssign(p) ==
    /\ dpc[p] = "constructing"
    /\ DepStep
    /\ managers' = managers + 1
    /\ model_manager' = managers + 1
    /\ dpc' = [dpc EXCEPT ![p] = "returning"]
    /\ UNCHANGED <<cache, current_size_bytes, clock, last, stale, written,
                   callVars, frame, reset_at, got>>

\* get_model_manager, `return _model_manager`.
DepReturn(p) ==
    /\ dpc[p] = "returning"
    /\ DepStep
    /\ got' = [got EXCEPT ![p] = model_manager]
    /\ dpc' = [dpc EXCEPT ![p] = "returned"]
    /\ UNCHANGED <<cache, current_size_bytes, clock, last, stale, written,
                   callVars, frame, model_manager, managers, reset_at>>

\* reset_model_manager (portfolio): the manager's cache is cleared and the
\* global is set to None.  What callers got before the reset is forgotten.
ResetModelManager ==
    /\ DepStep
    /\ model_manager' = None
    /\ reset_at' = managers
    /\ got' = [p \in Callers |-> None]
    /\ UNCHANGED <<cache, current_size_bytes, clock, last, stale, written,
                   callVars, frame, managers, dpc>>

DepNext ==
    \/ \E p \in Callers : DepTest(p)
    \/ \E p \in Callers : DepAssign(p)
    \/ \E p \in Callers : DepReturn(p)
    \/ ResetModelManager

DepSpec == Init /\ [][DepNext]_vars

(***************************************************************************)
(* GET /models next to the direct cache client (ListSpec).                 *)
(***************************************************************************)
\* config['models'] in the order of the file, which is the order list_models
\* goes through it.
ModelsConfig == <<"model1", "model2", "model3", "big_model", "tf_model", "onnx_model">>

RECURSIVE ListLoop(_, _, _)
\* The for loop of list_models over the ids still to visit: cache.get(id),
\* then cache.get_last_access_time(id), then for a loaded model get_model(id),
\* whose cache.get hits (the awaited coroutine does not suspend on a hit).  An
\* exception ends the loop.
ListLoop(st, ids, now) ==
    IF ids = <<>>
    THEN [st |-> st, raised |-> NoExc, visited |-> <<>>]
    ELSE LET id == Head(ids)
             g  == LRUCache_get(st, id, now)
             a  == LRUCache_get_last_access_time(g.st, id)
         IN  IF a.raised # NoExc
             THEN [st |-> g.st, raised |-> a.raised, visited |-> <<id>>]
             ELSE LET m    == IF g.ret # None THEN LRUCache_get(a.st, id, now).st
                                              ELSE a.st
                      rest == ListLoop(m, Tail(ids), now)
                  IN  [rest EXCEPT !.visited = <<id>> \o @]

\* GET /models (portfolio routes, list_models) on the manager's cache: the
\* loop, then the response; an exception of the loop is answered 500.  The
\* stale sets are not continued across a listing.
ListModels ==
    \E t \in Times : \E r \in {ListLoop(Now, ModelsConfig, t)} :
        /\ Step
        /\ cache' = r.st.cache
        /\ current_size_bytes' = r.st.current_size_bytes
        /\ clock' = IF cache' # cache THEN t ELSE clock
        /\ last' = [op |-> "list", visited |-> r.visited,
                    status |-> StatusCode(ExceptException(Raise(r.raised), 500))]
        /\ stale' = [j \in Keys |-> {}]
        /\ UNCHANGED <<written, mgrVars>>

\* The cache client next to a client of GET /models.
ListNext ==
    \/ \E k \in Keys : Get(k)
    \/ \E k \in Keys, v \in Values, s \in Sizes : Put(k, v, s)
    \/ Clear
    \/ ListModels

ListSpec == Init /\ [][ListNext]_vars

(***************************************************************************)
(* Properties.                                                             *)
(***************************************************************************)
\* Position of key k in a sequence of keys (0 when absent).
PosIn(q, k) == IF k \in Range(q) THEN CHOOSE i \in 1..Len(q) : q[i] = k ELSE 0

\* The last step was a put that returned normally.
PutDone == last.op = "put" /\ ~last.raised

\* C1: capacity bound. In every reachable state the sizes of the resident
\* entries sum to at most max_size_bytes.
C1_CapacityBound == SumSizes(cache) <= MaxSizeBytes

\* C2: accounting. After every operation current_size_bytes equals the sum of
\* the sizes of the resident entries.
C2_Accounting == current_size_bytes = SumSizes(cache)

\* C3: single-flight. At most one loader.load per model id is in flight at
\* any instant.
C3_SingleFlight == \A id \in ModelIds : Cardinality(Loading(id)) <= 1

\* C4: when a get_model call missed the cache while a load of the same id was
\* in flight, the two calls were served by one loader.load invocation and
\* returned the same outcome.
C4_OneLoadOneOutcome ==
    \A p \in Callers : \A q \in peers[p] :
        (pc[p] = "done" /\ pc[q] = "done") =>
            /\ handle[p] = handle[q]
            /\ ret[p] = ret[q]

\* C5: a put with size_bytes > max_size_bytes fails and leaves the entries,
\* their order and current_size_bytes as they were.
C5_OversizedPutLeavesStore ==
    [][(last'.op = "put" /\ last'.size_bytes > MaxSizeBytes)
        => (last'.raised /\ cache' = cache
            /\ current_size_bytes' = current_size_bytes)]_vars

\* C6: a put on a resident key k never evicts k; after a put that returned,
\* k holds the new value and size and current_size_bytes is the resident sum.
C6_PutNeverEvictsOwnKey ==
    (last.op = "put" /\ last.present) =>
        /\ last.key \notin Range(last.evicted)
        /\ ~last.raised =>
            /\ Contains(cache, last.key)
            /\ Lookup(cache, last.key).value = last.value
            /\ Lookup(cache, last.key).size_bytes = last.size_bytes
            /\ current_size_bytes = SumSizes(cache)

\* C7: every entry a put evicts is, among the entries resident when it is
\* evicted, the one with the smallest last_accessed (ties: the earliest in
\* the OrderedDict).
C7_EvictsOldestAccess ==
    [][last'.op = "put" =>
        \A i \in 1..Len(last'.evicted) :
            LET victim == Lookup(cache, last'.evicted[i])
                before == {last'.evicted[j] : j \in 1..(i - 1)}
            IN  \A n \in 1..Len(cache) :
                    cache[n].key \notin before =>
                        \/ victim.last_accessed < cache[n].last_accessed
                        \/ /\ victim.last_accessed = cache[n].last_accessed
                           /\ PosIn(KeysOf(cache), victim.key) <= n]_vars

\* C8: a get hit on k makes k the last entry of the OrderedDict, and a put
\* that evicts k has first evicted every key that was resident at that get
\* and was neither read nor written since.
C8_GetProtectsFromEviction ==
    [][/\ (last'.op = "get" /\ last'.hit) =>
            cache'[Len(cache')].key = last'.key
       /\ last'.op = "put" =>
            \A k \in Range(last'.evicted) : \A u \in stale[k] :
                /\ u \in Range(last'.evicted)
                /\ PosIn(last'.evicted, u) < PosIn(last'.evicted, k)]_vars

\* C8 witness: a put evicted a key that had been resident at the latest get
\* hit on k and untouched since, and k itself is still resident.
C8_Witness ==
    /\ PutDone
    /\ \E k \in last.shielded :
           /\ k \notin Range(last.evicted)
           /\ k # last.key
           /\ Contains(cache, k)

\* C9: a put on a resident key that needs no eviction replaces the entry:
\* same keys, the other entries untouched, current_size_bytes changed by
\* new size - old size, and a get of the key returns the new value.
C9_ReplaceSemantics ==
    [][(/\ last'.op = "put"
        /\ last'.present
        /\ current_size_bytes - Lookup(cache, last'.key).size_bytes
               + last'.size_bytes <= MaxSizeBytes)
        => (/\ ~last'.raised
            /\ last'.evicted = <<>>
            /\ Len(cache') = Len(cache)
            /\ ResidentKeys(cache') = ResidentKeys(cache)
            /\ \A k \in ResidentKeys(cache) \ {last'.key} :
                   Lookup(cache', k) = Lookup(cache, k)
            /\ current_size_bytes' = current_size_bytes
                   - Lookup(cache, last'.key).size_bytes + last'.size_bytes
            /\ LRUCache_get(Store(cache', current_size_bytes'),
                            last'.key, clock').ret = last'.value)]_vars

\* C9 witness: a put replaced a resident key without eviction while another
\* key was resident.
C9_Witness ==
    /\ PutDone
    /\ last.present
    /\ last.evicted = <<>>
    /\ Len(cache) >= 2

\* C10: after a put that returned, its key is the last entry of the
\* OrderedDict with last_accessed = now and access_count = 1.
C10_PutMakesMostRecent ==
    PutDone =>
        /\ cache # <<>>
        /\ cache[Len(cache)].key = last.key
        /\ cache[Len(cache)].last_accessed = clock
        /\ cache[Len(cache)].access_count = 1

(***************************************************************************)
(* Properties of get_model and predict.                                    *)
(***************************************************************************)
\* This step was taken by caller p.
StepBy(p) == nops' = nops + 1 /\ turn' = p

\* This step began a call of p (get_model or predict).
Entered(p) == StepBy(p) /\ pc[p] \in {"idle", "done"}

\* The return statements through which get_model yields no model.
Failures == {"not_configured", "no_loader", "load_failed", "put_raised"}

\* What the caller of get_model can observe of its call.
Outcome(p) == <<ret[p], exc[p]>>

\* C11: no negative caching. A load that fails leaves the cache as it was;
\* after a failed load of id, a call for id that misses the cache invokes
\* loader.load again; and a load that succeeds with a model that fits the
\* cache makes get_model return that model.
C11_NoNegativeCaching ==
    [][\A p \in Callers :
        /\ (StepBy(p) /\ pc[p] = "loading" /\ why'[p] = "load_failed") =>
              /\ cache' = cache
              /\ current_size_bytes' = current_size_bytes
        /\ (/\ Entered(p)
            /\ ~Contains(cache, req'[p])
            /\ req'[p] \in Configured
            /\ ModelType(req'[p]) \in Loaders
            /\ \E q \in Callers : /\ pc[q] = "done"
                                  /\ why[q] = "load_failed"
                                  /\ req[q] = req'[p]) =>
              /\ pc'[p] = "loading"
              /\ nloads' = nloads + 1
              /\ handle'[p] = nloads'
        /\ (/\ StepBy(p)
            /\ pc[p] = "loading"
            /\ last'.op = "put"
            /\ MemoryUsage(req[p]) <= MaxSizeBytes) =>
              /\ why'[p] = "loaded"
              /\ ret'[p] = handle[p]
              /\ ret'[p] # None]_vars

\* C11 witness: a load of an id failed, a later call for the same id loaded
\* again and returned the model.
C11_Witness ==
    \E p, q \in Callers :
        /\ pc[p] = "done" /\ why[p] = "load_failed"
        /\ pc[q] = "done" /\ why[q] = "loaded"
        /\ req[p] = req[q]
        /\ handle[q] > handle[p]
        /\ p \notin peers[q]
        /\ ret[q] = handle[q]
        /\ Contains(cache, req[q])

\* C12: when loader.load succeeds and the put returns, the model is in the
\* cache under id with size_bytes = loader.get_memory_usage(model), id is not
\* among the evicted keys, and get_model returns that model; whenever
\* get_model returns a model, the cache holds it under id at that moment.
C12_LoadInsertsAndReturns ==
    [][\A p \in Callers :
        /\ (StepBy(p) /\ pc[p] = "loading" /\ last'.op = "put" /\ ~last'.raised) =>
              /\ ret'[p] = handle[p]
              /\ Contains(cache', req[p])
              /\ Lookup(cache', req[p]).value = handle[p]
              /\ Lookup(cache', req[p]).size_bytes = MemoryUsage(req[p])
              /\ req[p] \notin Range(last'.evicted)
              /\ current_size_bytes' = SumSizes(cache')
        /\ (/\ StepBy(p)
            /\ pc[p] # "predicting"
            /\ pc'[p] # "loading"
            /\ ret'[p] # None) =>
              /\ Contains(cache', req'[p])
              /\ Lookup(cache', req'[p]).value = ret'[p]]_vars

\* C12 witness: a load succeeded, its put evicted an entry of another id, and
\* the returned model is in the cache.
C12_Witness ==
    \E p \in Callers :
        /\ turn = p
        /\ why[p] = "loaded"
        /\ PutDone
        /\ last.evicted # <<>>
        /\ Contains(cache, req[p])
        /\ Lookup(cache, req[p]).value = ret[p]

\* C13: get_model on an id resident in the cache returns the cached model,
\* invokes no loader.load, and makes id the last (most recently used) entry
\* of the OrderedDict.
C13_HitReturnsCached ==
    [][\A p \in Callers :
        (Entered(p) /\ Contains(cache, req'[p])) =>
            /\ ret'[p] = Lookup(cache, req'[p]).value
            /\ why'[p] = "hit"
            /\ pc'[p] # "loading"
            /\ nloads' = nloads
            /\ ResidentKeys(cache') = ResidentKeys(cache)
            /\ cache'[Len(cache')].key = req'[p]]_vars

\* C13 witness: get_model hit an id that was not the last entry of a cache
\* with two entries, and the id is the last entry now.
C13_Witness ==
    \E p \in Callers :
        /\ turn = p
        /\ call[p] = "get_model"
        /\ why[p] = "hit"
        /\ pc[p] = "done"
        /\ Len(cache) >= 2
        /\ cache[Len(cache)].key = req[p]
        /\ cache[Len(cache)].value = ret[p]
        /\ \E i \in 1..(Len(cache) - 1) :
               cache[i].value > ret[p]

\* C14: a get_model that misses the cache on an id without configuration
\* entry, or of a type without registered loader, fails (raises), invokes no
\* loader.load and leaves the cache as it was.
C14_MissFailuresTyped ==
    [][\A p \in Callers :
        (/\ Entered(p)
         /\ call'[p] = "get_model"
         /\ ~Contains(cache, req'[p])
         /\ (req'[p] \notin Configured \/ ModelType(req'[p]) \notin Loaders)) =>
            /\ exc'[p] # NoExc
            /\ pc'[p] = "done"
            /\ nloads' = nloads
            /\ cache' = cache
            /\ current_size_bytes' = current_size_bytes]_vars

\* C15: predict obtains the model through get_model; when that is None it
\* raises and no loader.predict is invoked; otherwise it awaits the predict of
\* the loader of the model's configured type with that model, and returns its
\* result or lets its exception through.
C15_PredictDelegates ==
    [][\A p \in Callers :
        /\ (/\ StepBy(p)
            /\ call'[p] = "predict"
            /\ pc[p] # "predicting"
            /\ pc'[p] # "loading") =>
              IF ret'[p] = None
              THEN /\ pc'[p] = "done"
                   /\ exc'[p] = "ValueError"
                   /\ res'[p] = None
                   /\ pred'[p] = NoPredict
              ELSE /\ pc'[p] = "predicting"
                   /\ exc'[p] = NoExc
                   /\ pred'[p].loader = ModelType(req'[p])
                   /\ pred'[p].model = ret'[p]
        /\ (StepBy(p) /\ pc[p] = "predicting") =>
              /\ pc'[p] = "done"
              /\ pred'[p].loader = pred[p].loader
              /\ pred'[p].model = pred[p].model
              /\ res'[p] = pred'[p].result
              /\ exc'[p] = pred'[p].error]_vars

\* C15 witness: a predict call got its model by loading it, awaited the
\* PyTorch loader's predict with it and returned the loader's result.
C15_Witness ==
    \E p \in Callers :
        /\ call[p] = "predict"
        /\ pc[p] = "done"
        /\ why[p] = "loaded"
        /\ pred[p].loader = "pytorch"
        /\ pred[p].model = ret[p]
        /\ res[p] = pred[p].result
        /\ res[p] \in Outputs

\* C16: every get_model call that yields no model raises, and two calls that
\* fail for different reasons have different outcomes.
C16_FailuresDistinguishable ==
    /\ \A p \in Callers :
           (pc[p] = "done" /\ call[p] = "get_model" /\ why[p] \in Failures) =>
               exc[p] # NoExc
    /\ \A p, q \in Callers :
           (/\ pc[p] = "done" /\ call[p] = "get_model" /\ why[p] \in Failures
            /\ pc[q] = "done" /\ call[q] = "get_model" /\ why[q] \in Failures
            /\ why[p] # why[q]) =>
               Outcome(p) # Outcome(q)

\* C17: a get_model call that yields no model leaves the entries of all other
\* ids resident and unchanged and leaves current_size_bytes unchanged.
C17_FailuresScoped ==
    [][\A p \in Callers :
        (/\ StepBy(p)
         /\ pc[p] # "predicting"
         /\ why'[p] \in Failures) =>
            /\ current_size_bytes' = current_size_bytes
            /\ \A k \in ResidentKeys(cache) \ {req'[p]} :
                   /\ Contains(cache', k)
                   /\ Lookup(cache', k) = Lookup(cache, k)]_vars

(***************************************************************************)
(* Further properties of the cache.                                        *)
(***************************************************************************)
\* The sizes of the resident entries other than key.
SumOthers(c, key) == SumSizes(Pop(c, key))

\* C18: a put with 0 <= size_bytes <= max_size_bytes never raises "cache full
\* and nothing to evict".
C18_FittingPutSucceeds ==
    (last.op = "put" /\ last.size_bytes <= MaxSizeBytes) =>
        /\ ~last.raised
        /\ Contains(cache, last.key)

\* C18 witness: a put of a size that fits returned after it had evicted every
\* other entry.
C18_Witness ==
    /\ PutDone
    /\ last.size_bytes <= MaxSizeBytes
    /\ Len(last.evicted) >= 2
    /\ Len(cache) = 1

\* C19: the soft limit is not enforced. A put evicts nothing when the sizes
\* of the resident entries other than its key plus size_bytes are at most
\* max_size_bytes, whatever soft_limit_bytes is; all entries stay resident.
C19_SoftLimitNotEnforced ==
    [][(/\ last'.op = "put"
        /\ SumOthers(cache, last'.key) + last'.size_bytes <= MaxSizeBytes) =>
            /\ ~last'.raised
            /\ last'.evicted = <<>>
            /\ ResidentKeys(cache') = ResidentKeys(cache) \cup {last'.key}]_vars

\* C19 witness: a put of a new key evicted nothing and left two entries whose
\* sizes sum to more than soft_limit_bytes.
C19_Witness ==
    /\ PutDone
    /\ ~last.present
    /\ last.evicted = <<>>
    /\ Len(cache) >= 2
    /\ SumSizes(cache) > SoftLimitBytes
    /\ SumSizes(cache) <= MaxSizeBytes

\* C20: a get of a key that is not resident returns None and changes neither
\* the entries, their fields and order, nor current_size_bytes.
C20_MissHasNoEffect ==
    [][(last'.op = "get" /\ ~last'.hit) =>
            /\ last'.ret = None
            /\ cache' = cache
            /\ current_size_bytes' = current_size_bytes]_vars

\* C20 witness: a get missed while other keys were resident.
C20_Witness ==
    /\ last.op = "get"
    /\ ~last.hit
    /\ last.ret = None
    /\ Len(cache) >= 2

\* C21: a get hit on k changes only k's last_accessed, access_count and
\* position: the resident keys, every value and size_bytes, the other entries
\* and their order, and current_size_bytes stay, and a repeated get returns
\* the same value.
C21_GetHitFrame ==
    [][(last'.op = "get" /\ last'.hit) =>
        /\ ResidentKeys(cache') = ResidentKeys(cache)
        /\ Len(cache') = Len(cache)
        /\ current_size_bytes' = current_size_bytes
        /\ \A j \in ResidentKeys(cache) :
               /\ Lookup(cache', j).value = Lookup(cache, j).value
               /\ Lookup(cache', j).size_bytes = Lookup(cache, j).size_bytes
        /\ Pop(cache', last'.key) = Pop(cache, last'.key)
        /\ last'.ret = Lookup(cache, last'.key).value
        /\ LRUCache_get(Store(cache', current_size_bytes'), last'.key, clock').ret
               = last'.ret]_vars

\* C21 witness: the second get hit in a row on a key of a cache with two
\* entries.
C21_Witness ==
    /\ last.op = "get"
    /\ last.hit
    /\ Len(cache) >= 2
    /\ Lookup(cache, last.key).access_count >= 3
    /\ Lookup(cache, last.key).value = last.ret

\* C22: read-your-write. A get of k returns the value of the latest put of k
\* that returned, as long as k was not evicted or cleared since.
C22_ReadYourWrite ==
    [][(last'.op = "get" /\ written[last'.key] # None) =>
            last'.ret = written[last'.key]]_vars

\* C22 witness: a get returned the value put under its key, with the put of
\* another key in between.
C22_Witness ==
    /\ last.op = "get"
    /\ last.hit
    /\ last.ret = written[last.key]
    /\ Lookup(cache, last.key).access_count = 2
    /\ \E j \in ResidentKeys(cache) \ {last.key} :
           Lookup(cache, j).last_accessed > 0

\* C23: clear drops every entry and sets current_size_bytes to 0; afterwards
\* every get returns None and a put of any size up to max_size_bytes returns
\* without evicting.
C23_ClearResets ==
    [][last'.op = "clear" =>
        /\ cache' = <<>>
        /\ current_size_bytes' = 0
        /\ \A k \in Keys :
               /\ LRUCache_get(Store(cache', current_size_bytes'), k, clock').ret = None
               /\ \A s \in {x \in AllSizes : x <= MaxSizeBytes} :
                      LET r == LRUCache_put(Store(cache', current_size_bytes'),
                                            k, 1, s, clock')
                      IN  /\ ~r.raised
                          /\ r.evicted = <<>>
                          /\ Contains(r.st.cache, k)]_vars

\* C23 witness: a clear dropped two entries.
C23_Witness ==
    /\ last.op = "clear"
    /\ last.dropped >= 2
    /\ cache = <<>>
    /\ current_size_bytes = 0

\* C24: stats reports item_count = number of resident entries and
\* utilization = current_size_bytes / max_size_bytes, and in every reachable
\* state 0 <= current_size_bytes <= max_size_bytes, so that the utilization
\* lies between 0 and 1.
C24_UtilizationInRange ==
    LET s == LRUCache_stats(Now)
    IN  /\ s.item_count = Len(cache)
        /\ s.current_size_bytes = current_size_bytes
        /\ s.utilization = [num |-> current_size_bytes, den |-> MaxSizeBytes]
        /\ 0 <= s.utilization.num
        /\ s.utilization.num <= s.utilization.den

\* C25: a load of id is started only when id is neither resident nor being
\* loaded, and a load never completes into an id that is resident (a resident
\* model is never replaced by a second load).
C25_IdTransitions ==
    [][\A p \in Callers :
        /\ (StepBy(p) /\ pc[p] \in {"idle", "done"} /\ pc'[p] = "loading") =>
              /\ ~Contains(cache, req'[p])
              /\ Loading(req'[p]) = {}
        /\ (StepBy(p) /\ pc[p] = "loading" /\ last'.op = "put") =>
              ~last'.present]_vars

\* C26: get_model_info of a configured id whose model is obtained (from the
\* cache or by a load) returns a ModelInfo with the configured format, the
\* loader's memory usage and the cache's last access time of id; it returns
\* None when get_model yields no model.
C26_ModelInfoReturned ==
    [][\A p \in Callers :
        (StepBy(p) /\ call'[p] = "get_model_info" /\ pc'[p] = "done") =>
            IF why'[p] \in {"hit", "loaded"}
            THEN info'[p] = ModelInfo(req'[p],
                                      Lookup(cache', req'[p]).last_accessed)
            ELSE info'[p] = NoInfo]_vars

\* C27: get_last_access_time(key) returns the last_accessed of a resident key
\* and None for any other key, raises nothing and leaves the cache as it is.
C27_LastAccessTimeReads ==
    \A k \in Keys :
        LET r == LRUCache_get_last_access_time(Now, k)
        IN  /\ r.raised = NoExc
            /\ r.st = Now
            /\ r.ret = IF Contains(cache, k) THEN Lookup(cache, k).last_accessed
                                             ELSE None

\* C29: the active_models of the system status is the number of models the
\* manager holds: 0 for a new manager, 1 after one model was loaded, and a
\* load into the empty cache raises the reported utilization.
C29_ActiveModelsCount ==
    [][/\ GetSystemStatus'.active_models = Len(cache')
       /\ \A p \in Callers :
            (/\ StepBy(p)
             /\ pc[p] = "loading"
             /\ cache = <<>>
             /\ current_size_bytes = 0
             /\ why'[p] = "loaded") =>
                GetSystemStatus'.cache_utilization.num
                    > GetSystemStatus.cache_utilization.num]_vars

\* C30: a load in flight does not hold up calls for other ids. While p awaits
\* the load of A, any other caller can call get_model(B): it returns at once
\* when B is resident or cannot be loaded and starts its own load otherwise,
\* and a load of B in flight can complete.
C30_UnrelatedNotSerialized ==
    \A p, q \in Callers :
        (p # q /\ pc[p] = "loading" /\ nops < MaxSteps) =>
            /\ pc[q] \in {"idle", "done"} =>
                 \A id \in ModelIds \ {req[p]} :
                     IF Contains(cache, id) \/ id \notin Configured
                        \/ ModelType(id) \notin Loaders
                     THEN ENABLED (GetModel(q, id) /\ pc'[q] = "done")
                     ELSE ENABLED (GetModel(q, id) /\ pc'[q] = "loading")
            /\ (pc[q] = "loading" /\ req[q] # req[p]) =>
                 /\ ENABLED (LoadFails(q) /\ pc'[q] = "done" /\ pc'[p] = "loading")
                 /\ ModelType(req[q]) = "pytorch" =>
                        ENABLED (LoadSucceeds(q) /\ pc'[q] # "loading"
                                 /\ pc'[p] = "loading")

\* C30 witness: while the load of one id is in flight, a call for another id
\* that began later has loaded its model and returned it.
C30_Witness ==
    \E p, q \in Callers :
        /\ pc[p] = "loading"
        /\ pc[q] = "done"
        /\ call[q] = "get_model"
        /\ why[q] = "loaded"
        /\ req[q] # req[p]
        /\ handle[q] > handle[p]
        /\ ret[q] = handle[q]

\* A size string of the form the pattern accepts, described by its parts and
\* independently of Match: whitespace, digits, with decimals allowed a point
\* and more digits, whitespace, a unit in either case, whitespace.
AllIn(s, a, b, C) == \A x \in a..b : s[x] \in C

SizeForm(s, decimals) ==
    \E a \in 0..Len(s), i \in 1..Len(s), j \in 1..Len(s), e \in 1..Len(s) :
        /\ a < i /\ i <= j /\ j < e
        /\ AllIn(s, 1, a, Whitespace)
        /\ \/ AllIn(s, a + 1, i, Digits)
           \/ /\ decimals
              /\ \E d \in (a + 2)..(i - 1) :
                    /\ s[d] = "."
                    /\ AllIn(s, a + 1, d - 1, Digits)
                    /\ AllIn(s, d + 1, i, Digits)
        /\ AllIn(s, i + 1, j, Whitespace)
        /\ SubSeq(s, j + 1, e) \in
               {<<"B">>} \cup {<<u, b>> : u \in {"K", "k", "M", "m", "G", "g", "T", "t"},
                                          b \in {"B"}}
               \cup {<<"b">>} \cup {<<u, b>> : u \in {"K", "k", "M", "m", "G", "g", "T", "t"},
                                              b \in {"b"}}
        /\ AllIn(s, e + 1, Len(s), Whitespace)

\* The characters of s that are digits, in order, those after the point, and
\* the power of 1024 the unit letter of s stands for.
NumberDigits(s) == SelectSeq(s, LAMBDA c : c \in Digits)

FractionLen(s) ==
    IF \E d \in 1..Len(s) : s[d] = "."
    THEN Len(NumberDigits(SubSeq(s, (CHOOSE d \in 1..Len(s) : s[d] = ".") + 1, Len(s))))
    ELSE 0

PowerOf(s) ==
    IF \E x \in 1..Len(s) : s[x] \in {"T", "t"} THEN 4
    ELSE IF \E x \in 1..Len(s) : s[x] \in {"G", "g"} THEN 3
    ELSE IF \E x \in 1..Len(s) : s[x] \in {"M", "m"} THEN 2
    ELSE IF \E x \in 1..Len(s) : s[x] \in {"K", "k"} THEN 1
    ELSE 0

RECURSIVE NumValue(_)
\* The number a short numeral stands for.
NumValue(num) ==
    IF num = <<>> THEN 0
    ELSE Base * NumValue(SubSeq(num, 1, Len(num) - 1)) + num[Len(num)]

RECURSIVE MulAdd(_, _, _)
\* The numeral of num * m + c, for small m and c.
MulAdd(num, m, c) ==
    IF num = <<>> THEN (IF c = 0 THEN <<>> ELSE <<c>>)
    ELSE LET v == num[Len(num)] * m + c
         IN  Append(MulAdd(SubSeq(num, 1, Len(num) - 1), m, v \div Base), v % Base)

\* num is n * 1024^k: its last k digits are zero and the digits before are n.
IsShifted(num, n, k) ==
    \/ n = 0 /\ \A x \in 1..Len(num) : num[x] = 0
    \/ /\ Len(num) > k
       /\ \A x \in (Len(num) - k + 1)..Len(num) : num[x] = 0
       /\ NumValue(SubSeq(num, 1, Len(num) - k)) = n

\* q is the integer part of n * 1024^k / 10^L.
IsQuotient(q, n, k, L) ==
    \E rem \in 0..(10^L - 1) : IsShifted(MulAdd(q, 10^L, rem), n, k)

\* The value parsed from v: the parse of the constructor's two values is the
\* same function, so each is looked at where it was arbitrary.
ParsedValues ==
    {[v |-> config.max_memory, n |-> built.max_size_bytes, ok |-> built.status = "constructed"],
     [v |-> config.soft_limit, n |-> built.soft_limit_bytes, ok |-> built.status = "constructed"]}

\* C28 as stated: the cache section's values are sizes of the form
\* "<integer><unit>"; the constructor fails on a value of any other form and
\* otherwise takes the integer times 1024^k of the unit as the byte count.
C28_IntegerSizes ==
    built.status # "none" =>
        /\ built.status = "constructed" <=>
               \A f \in {config.max_memory, config.soft_limit} :
                   f.type = "str" /\ SizeForm(f.chars, FALSE)
        /\ built.status = "constructed" =>
               \A r \in ParsedValues :
                   IsShifted(r.n, DecimalValue(NumberDigits(r.v.chars)), PowerOf(r.v.chars))

\* C28: the cache section's values are sizes "<number><unit>", the number an
\* integer or a decimal with digits on both sides of the point, the unit one
\* of B, KB, MB, GB, TB in either case; the constructor fails with ValueError
\* on a value of any other form (a value that is no string included) and
\* otherwise takes the integer part of number * 1024^k as the byte count.
C28_ParseSize ==
    built.status # "none" =>
        /\ built.status = "constructed" <=>
               \A f \in {config.max_memory, config.soft_limit} :
                   f.type = "str" /\ SizeForm(f.chars, TRUE)
        /\ built.status = "constructed" =>
               \A r \in ParsedValues :
                   IsQuotient(r.n, DecimalValue(NumberDigits(r.v.chars)),
                              PowerOf(r.v.chars), FractionLen(r.v.chars))

\* A decimal size in kilobytes was parsed to a byte count that is not a
\* multiple of 1024.
C28_Witness ==
    /\ built.status = "constructed"
    /\ \E x \in 1..Len(config.max_memory.chars) : config.max_memory.chars[x] = "."
    /\ PowerOf(config.max_memory.chars) = 1
    /\ built.max_size_bytes[Len(built.max_size_bytes)] # 0

\* The store with every access_count set back to 1.
EraseCounts(c) == [i \in 1..Len(c) |-> [c[i] EXCEPT !.access_count = 1]]

\* C33: access_count of a resident entry is 1 plus the number of get hits on
\* its key since the latest put of the key: a put that returns leaves its
\* entry with access_count 1, a get hit adds exactly 1 to its entry's, every
\* other entry that stays resident keeps its own; and a put evicts the same
\* keys whatever the access counts are.
C33_AccessCount ==
    [][/\ (last'.op = "put" /\ ~last'.raised) =>
              Lookup(cache', last'.key).access_count = 1
       /\ (last'.op = "get" /\ last'.hit) =>
              Lookup(cache', last'.key).access_count
                  = Lookup(cache, last'.key).access_count + 1
       /\ \A j \in ResidentKeys(cache') :
              (last'.op = "none" \/ j # last'.key) =>
                  /\ j \in ResidentKeys(cache)
                  /\ Lookup(cache', j).access_count = Lookup(cache, j).access_count
       /\ last'.op = "put" =>
              last'.evicted =
                  LRUCache_put(Store(EraseCounts(cache), current_size_bytes),
                               last'.key, last'.value, last'.size_bytes,
                               clock').evicted]_vars

\* C33 witness: the fourth operation was a get hit that took its entry's
\* access_count to 2 while the other resident entry kept access_count 1.
C33_Witness ==
    /\ last.op = "get"
    /\ last.hit
    /\ Len(cache) = 2
    /\ Lookup(cache, last.key).access_count = 2
    /\ nops = 4
    /\ \E j \in ResidentKeys(cache) \ {last.key} :
           Lookup(cache, j).access_count = 1

\* C37: put terminates. The evictions of one put are of distinct keys, each
\* resident when put was called, so there are at most as many as there were
\* entries; after them the put either raised or its entry is stored.
C37_PutTerminates ==
    [][last'.op = "put" =>
        /\ Len(last'.evicted) <= Len(cache)
        /\ Range(last'.evicted) \subseteq ResidentKeys(cache)
        /\ \A i, j \in 1..Len(last'.evicted) :
               last'.evicted[i] = last'.evicted[j] => i = j
        /\ \/ last'.raised
           \/ /\ Contains(cache', last'.key)
              /\ Lookup(cache', last'.key).size_bytes = last'.size_bytes]_vars

\* C37 witness: a put evicted every entry of a cache with two entries and then
\* raised.
C37_Witness ==
    /\ last.op = "put"
    /\ last.raised
    /\ Len(last.evicted) = 2
    /\ cache = <<>>

\* C32: through the manager alone, with the fixed memory usage of every id,
\* in every reachable state of every interleaving the sizes of the resident
\* models sum to current_size_bytes, the sum is at most max_size_bytes, no id
\* is resident twice and each resident id is counted with its own size.
C32_ManagerAccounting ==
    /\ SumSizes(cache) = current_size_bytes
    /\ current_size_bytes <= MaxSizeBytes
    /\ current_size_bytes >= 0
    /\ \A i, j \in 1..Len(cache) : cache[i].key = cache[j].key => i = j
    /\ \A i \in 1..Len(cache) : cache[i].size_bytes = MemoryUsage(cache[i].key)

\* C32 witness: two racing loads of the same id both stored their model, and
\* its size is counted once.
C32_Witness ==
    \E p \in Callers : \E q \in Callers \ {p} :
        /\ req[p] = req[q]
        /\ why[p] = "loaded" /\ why[q] = "loaded"
        /\ pc[p] = "done" /\ pc[q] = "done"
        /\ q \in peers[p]
        /\ Contains(cache, req[p])
        /\ current_size_bytes = MemoryUsage(req[p])

\* C38: TensorFlowLoader.load returns the loaded handle when TensorFlow is
\* installed: whenever a caller awaits the load of a configured tensorflow
\* model, the load may return a model, which _load_model then puts into the
\* cache.
C38_TensorFlowLoads ==
    \A p \in Callers :
        (pc[p] = "loading" /\ ModelType(req[p]) = "tensorflow") =>
            ENABLED LoadSucceeds(p)

\* C35: not found is answered 404. A predict request whose get_model gave None
\* (catwalk routes) or whose id is not configured (portfolio routes), and a
\* metadata request whose get_model_info gave None, get status 404.
C35_NotFoundIs404 ==
    \A p \in Callers :
        pc[p] = "done" =>
            /\ (call[p] = "get_model" /\ ret[p] = None) =>
                   StatusCode(Routes_predict(ret[p], exc[p])) = 404
            /\ (call[p] = "get_model" /\ req[p] \notin Configured) =>
                   StatusCode(Portfolio_predict(req[p], ret[p], exc[p])) = 404
            /\ (call[p] = "get_model_info" /\ ~info[p].found) =>
                   StatusCode(Routes_get_model_metadata(info[p])) = 404

\* C34: listing is no use. After list_models has run, the resident entries are
\* in the same order with the same access_count as before, and the entry the
\* next eviction removes is the same.
C34_ListingIsNoUse ==
    [][last'.op = "list" =>
        /\ KeysOf(cache') = KeysOf(cache)
        /\ \A i \in 1..Len(cache) :
               cache'[i].access_count = cache[i].access_count
        /\ LRUCache_evict_lru(Store(cache', current_size_bytes')).key
               = LRUCache_evict_lru(Store(cache, current_size_bytes)).key]_vars

\* C36: the manager is a singleton. Between two resets at most one
\* ModelManager is constructed, every caller that got a manager since the
\* latest reset got the same one, and it was constructed after that reset.
C36_Singleton ==
    /\ managers - reset_at <= 1
    /\ \A p, q \in Callers :
           (got[p] # None /\ got[q] # None) => got[p] = got[q]
    /\ \A p \in Callers : got[p] # None => got[p] > reset_at

\* C31: cache operations are atomic for concurrent requests. While a put is
\* in progress no other put is, every step taken is a step of the put's own
\* caller, so no other call reads or changes the store before the put has
\* ended, and when it ends the store, the evicted keys and the outcome are
\* those of the whole put applied to the store it started from.
C31_PutIsAtomic ==
    [][\A p \in Callers :
           frame[p] # NoFrame =>
               /\ \A q \in Callers \ {p} : frame[q] = NoFrame /\ frame'[q] = NoFrame
               /\ turn' = p
               /\ \A q \in Callers \ {p} : pc'[q] = pc[q] /\ ret'[q] = ret[q]
               /\ frame'[p] = NoFrame =>
                      LET f == frame[p]
                          r == LRUCache_put(f.before, f.key, f.value,
                                            f.size_bytes, clock')
                      IN  /\ Store(cache', current_size_bytes') = r.st
                          /\ last'.raised = r.raised
                          /\ last'.evicted = r.evicted]_vars

\* C31 witness: a put has evicted an entry and not yet stored its own while
\* another caller's load is in flight.
C31_Witness ==
    \E p \in Callers : \E q \in Callers \ {p} :
        /\ frame[p] # NoFrame
        /\ Len(frame[p].evicted) >= 1
        /\ ~Contains(cache, frame[p].key)
        /\ pc[q] = "loading"

==========================================================================
